---- MODULE Spec2Model ----
(***************************************************************************)
(* uurlog-paymo: synchronising a local hour log to Paymo.                  *)
(*                                                                         *)
(* The module models src/src/main.rs (sync_to_paymo and its helpers),      *)
(* src/src/config.rs (Config::task_ids) and src/src/api_client.rs (the     *)
(* ApiClient verbs and the RateLimit they share).                          *)
(***************************************************************************)
EXTENDS Integers, Sequences, FiniteSets, TLC

(***************************************************************************)
(* Bounds of the model.                                                    *)
(***************************************************************************)
\* longest local hour log (number of entries read from the uurlog files)
MaxLocal == 2
\* most time entries on the server for the user and period at the start
MaxRemote == 2
\* number of times the operator runs the sync command in a row
MaxRuns == 2
\* last instant of the clock (seconds)
MaxTime == 3
\* number of API calls made through one ApiClient in the rate-limit runs
MaxCalls == 2

(***************************************************************************)
(* Values.                                                                 *)
(***************************************************************************)
None == <<"None">>

Some(v) == <<"Some", v>>

\* Dates are numbered; the period (PartialDate::as_range) holds 1 and 2, and
\* date 0 lies before it.
Period == 1..2

Descriptions == {"a", "b"}

\* uurlog::Hours, as its total number of minutes.
Minutes == 1..2

Tags == {"t1", "t2", "x"}

\* The user the token belongs to.
MyUserId == 1

Max(a, b) == IF a > b THEN a ELSE b

SeqsUpTo(S, n) == UNION {[1..k -> S] : k \in 0..n}

RemoveAt(s, i) == SubSeq(s, 1, i - 1) \o SubSeq(s, i + 1, Len(s))

Range(s) == {s[i] : i \in DOMAIN s}

(***************************************************************************)
(* src/src/config.rs                                                       *)
(***************************************************************************)
\* Config::task_ids: the name -> id map of the [[Task]] tables, an error on
\* a repeated name.  The map is a set of <<name, id>> pairs.
RECURSIVE TaskIdsFrom(_, _)
TaskIdsFrom(tasks, output) ==
    IF tasks = <<>> THEN [ok |-> TRUE, map |-> output]
    ELSE IF \E p \in output : p[1] = Head(tasks).name
         THEN [ok |-> FALSE, map |-> {}]
         ELSE TaskIdsFrom(Tail(tasks), output \cup {<<Head(tasks).name, Head(tasks).id>>})

TaskIds(tasks) == TaskIdsFrom(tasks, {})

MapKeys(map) == {p[1] : p \in map}

MapGet(map, key) == (CHOOSE p \in map : p[1] = key)[2]

(***************************************************************************)
(* src/src/main.rs: pure helpers                                           *)
(***************************************************************************)
\* entry.hours.total_minutes() * 60, the u32 duration in seconds (the hours
\* of a log are far from the 71582788 minutes at which it would overflow).
DurationOf(hours) == hours * 60

\* (variant: the entries outside the period are kept)
RetainAll(entries) == entries

\* entries.retain(|entry| period.contains(&entry.date))
RetainPeriod(entries) == SelectSeq(entries, LAMBDA e : e.date \in Period)

\* The body of the loop of get_tasks_with_entries for one entry: the tags
\* that name a task, in order; none is an error, a second one is an error.
KnownTags(entry, task_ids) ==
    SelectSeq(entry.tags, LAMBDA tag : tag \in MapKeys(task_ids))

\* (variant: a task is picked when several tags name one)
ResolveEntryFirst(entry, task_ids) ==
    LET found == KnownTags(entry, task_ids) IN
    IF Len(found) = 0 THEN [kind |-> "NoTask"]
    ELSE [kind |-> "Ok", task_tag |-> found[1], task_id |-> MapGet(task_ids, found[1])]

ResolveEntry(entry, task_ids) ==
    LET found == KnownTags(entry, task_ids) IN
    IF Len(found) = 0 THEN [kind |-> "NoTask"]
    ELSE IF Len(found) >= 2
         THEN [kind |-> "Ambiguous", task_tag |-> found[1], other_tag |-> found[2]]
         ELSE [kind |-> "Ok", task_tag |-> found[1], task_id |-> MapGet(task_ids, found[1])]

\* (variant: an entry without exactly one task is left out of the result)
RECURSIVE GetTasksSkipping(_, _, _)
GetTasksSkipping(entries, task_ids, result) ==
    IF entries = <<>> THEN [ok |-> TRUE, value |-> result]
    ELSE LET r == ResolveEntry(Head(entries), task_ids) IN
         IF r.kind # "Ok" THEN GetTasksSkipping(Tail(entries), task_ids, result)
         ELSE GetTasksSkipping(Tail(entries), task_ids,
                               Append(result, [entry |-> Head(entries), task_id |-> r.task_id]))

\* get_tasks_with_entries: every entry with its task id, or the first error.
RECURSIVE GetTasksFrom(_, _, _)
GetTasksFrom(entries, task_ids, result) ==
    IF entries = <<>> THEN [ok |-> TRUE, value |-> result]
    ELSE LET r == ResolveEntry(Head(entries), task_ids) IN
         IF r.kind # "Ok" THEN [ok |-> FALSE, value |-> <<>>, error |-> r]
         ELSE GetTasksFrom(Tail(entries), task_ids,
                           Append(result, [entry |-> Head(entries), task_id |-> r.task_id]))

GetTasksWithEntries(entries, task_ids) == GetTasksFrom(entries, task_ids, <<>>)

\* summarize_per_day: a BTreeMap keyed by (date, task); the first entry of a
\* key makes the summary entry, later ones add their hours; the values come
\* out in key order.
KeyLess(k1, k2) == k1[1] < k2[1] \/ (k1[1] = k2[1] /\ k1[2] < k2[2])

\* (variant: the map is keyed by the date alone)
RECURSIVE SummaryMapByDate(_, _, _)
SummaryMapByDate(entries, description, output) ==
    IF entries = <<>> THEN output
    ELSE LET e == Head(entries)
             key == <<e.entry.date, 0>>
             slot == {s \in output : s[1] = key}
         IN IF slot = {}
            THEN SummaryMapByDate(Tail(entries), description,
                    output \cup {<<key, [entry |-> [date |-> e.entry.date,
                                                     hours |-> e.entry.hours,
                                                     tags |-> <<>>,
                                                     description |-> description],
                                          task_id |-> e.task_id]>>})
            ELSE LET old == CHOOSE s \in slot : TRUE
                     new == <<key, [old[2] EXCEPT !.entry.hours = @ + e.entry.hours]>>
                 IN SummaryMapByDate(Tail(entries), description, (output \ {old}) \cup {new})

RECURSIVE SummaryMap(_, _, _)
SummaryMap(entries, description, output) ==
    IF entries = <<>> THEN output
    ELSE LET e == Head(entries)
             key == <<e.entry.date, e.task_id>>
             slot == {s \in output : s[1] = key}
         IN IF slot = {}
            THEN SummaryMap(Tail(entries), description,
                    output \cup {<<key, [entry |-> [date |-> e.entry.date,
                                                     hours |-> e.entry.hours,
                                                     tags |-> <<>>,
                                                     description |-> description],
                                          task_id |-> e.task_id]>>})
            ELSE LET old == CHOOSE s \in slot : TRUE
                     new == <<key, [old[2] EXCEPT !.entry.hours = @ + e.entry.hours]>>
                 IN SummaryMap(Tail(entries), description, (output \ {old}) \cup {new})

RECURSIVE IntoValues(_)
IntoValues(output) ==
    IF output = {} THEN <<>>
    ELSE LET first == CHOOSE s \in output : \A t \in output : t = s \/ KeyLess(s[1], t[1])
         IN <<first[2]>> \o IntoValues(output \ {first})

SummarizePerDay(entries, description) == IntoValues(SummaryMap(entries, description, {}))

\* (variant: the durations are not compared)
MatchesDescription(new_entry, old_entry) ==
    new_entry.entry.description = old_entry.description

\* The closure of the position() call: a local entry matches an old entry
\* when the descriptions are equal and the durations are equal.
Matches(new_entry, old_entry) ==
    /\ new_entry.entry.description = old_entry.description
    /\ DurationOf(new_entry.entry.hours) = old_entry.duration

\* iter().position(..): the first index that matches, 0 for None.
Position(entries_with_tasks, old_entry) ==
    LET hits == {i \in DOMAIN entries_with_tasks : Matches(entries_with_tasks[i], old_entry)}
    IN IF hits = {} THEN 0 ELSE CHOOSE i \in hits : \A j \in hits : i <= j

\* (variant: a matched local entry stays on the list to upload)
RECURSIVE ReconcileKeeping(_, _, _)
ReconcileKeeping(entries_with_tasks, old_entries, delete_entries) ==
    IF old_entries = <<>>
    THEN [creates |-> entries_with_tasks, deletes |-> delete_entries]
    ELSE LET old_entry == Head(old_entries)
             matching_index == Position(entries_with_tasks, old_entry)
         IN IF matching_index # 0
            THEN ReconcileKeeping(entries_with_tasks, Tail(old_entries), delete_entries)
            ELSE ReconcileKeeping(entries_with_tasks, Tail(old_entries),
                                  Append(delete_entries, old_entry))

\* (variant: old entries without a date are passed over)
RECURSIVE ReconcileDated(_, _, _)
ReconcileDated(entries_with_tasks, old_entries, delete_entries) ==
    IF old_entries = <<>>
    THEN [creates |-> entries_with_tasks, deletes |-> delete_entries]
    ELSE LET old_entry == Head(old_entries)
             matching_index == Position(entries_with_tasks, old_entry)
         IN IF old_entry.date = None
            THEN ReconcileDated(entries_with_tasks, Tail(old_entries), delete_entries)
            ELSE IF matching_index # 0
            THEN ReconcileDated(RemoveAt(entries_with_tasks, matching_index),
                                Tail(old_entries), delete_entries)
            ELSE ReconcileDated(entries_with_tasks, Tail(old_entries),
                                Append(delete_entries, old_entry))

\* The loop over old_entries: a matched local entry is removed from the list
\* to upload, an old entry without a match is pushed on delete_entries.
RECURSIVE Reconcile(_, _, _)
Reconcile(entries_with_tasks, old_entries, delete_entries) ==
    IF old_entries = <<>>
    THEN [creates |-> entries_with_tasks, deletes |-> delete_entries]
    ELSE LET old_entry == Head(old_entries)
             matching_index == Position(entries_with_tasks, old_entry)
         IN IF matching_index # 0
            THEN Reconcile(RemoveAt(entries_with_tasks, matching_index),
                           Tail(old_entries), delete_entries)
            ELSE Reconcile(entries_with_tasks, Tail(old_entries),
                           Append(delete_entries, old_entry))

(***************************************************************************)
(* src/src/api_client.rs: RateLimit                                        *)
(***************************************************************************)
\* A header of a response is absent (None) or holds bytes: text, or bytes
\* that are not UTF-8.
BadBytes == "<not utf-8>"

Absent == "<absent>"

HeaderTexts == {"abc", "NaN", "-1", "0", "1", "2"}

HeaderValues == {Absent, BadBytes} \cup HeaderTexts

\* The headers of a response: the decay period in every shape, the counts in
\* some.
AllHeaders ==
    [decay_period : HeaderValues,
     limit : {Absent, BadBytes, "-1", "2"},
     remaining : {Absent, "abc", "0", "1"}]

NoHeaders == [decay_period |-> Absent, limit |-> Absent, remaining |-> Absent]

\* std::str::from_utf8
FromUtf8(bytes) == IF bytes = BadBytes THEN [ok |-> FALSE] ELSE [ok |-> TRUE, value |-> bytes]

\* The decimal numbers the header texts spell.
Digits(text) ==
    CASE text = "0" -> 0
      [] text = "1" -> 1
      [] text = "2" -> 2
      [] OTHER -> -1

\* str::parse::<u32>: digits only.
ParseU32(text) ==
    IF text \in {"0", "1", "2"} THEN [ok |-> TRUE, value |-> Digits(text)] ELSE [ok |-> FALSE]

\* str::parse::<f32>: a signed decimal number, or "NaN"/"inf"; the value is
\* kept as [finite, secs].
ParseF32(text) ==
    CASE text \in {"0", "1", "2"} -> [ok |-> TRUE, value |-> [finite |-> TRUE, secs |-> Digits(text)]]
      [] text = "-1" -> [ok |-> TRUE, value |-> [finite |-> TRUE, secs |-> -1]]
      [] text = "NaN" -> [ok |-> TRUE, value |-> [finite |-> FALSE, secs |-> 0]]
      [] OTHER -> [ok |-> FALSE]

\* Duration::from_secs_f32 panics on a negative or non-finite value.
FromSecsF32Panics(value) == ~value.finite \/ value.secs < 0

\* RateLimit::new
RateLimitNew(instant) ==
    [decay_period |-> 1, limit |-> 10, remaining |-> 10, time |-> instant]

\* The X-Ratelimit-Decay-Period block of update_from_response.
UpdateDecayPeriod(rl, header, time) ==
    IF header = Absent THEN [panic |-> FALSE, rl |-> rl]
    ELSE IF ~FromUtf8(header).ok THEN [panic |-> FALSE, rl |-> rl]
    ELSE LET parsed == ParseF32(FromUtf8(header).value) IN
         IF ~parsed.ok THEN [panic |-> FALSE, rl |-> rl]
         ELSE IF FromSecsF32Panics(parsed.value) THEN [panic |-> TRUE, rl |-> rl]
         ELSE [panic |-> FALSE,
               rl |-> [rl EXCEPT !.decay_period = parsed.value.secs, !.time = time]]

\* The X-Ratelimit-Limit block.
UpdateLimit(rl, header) ==
    IF header = Absent THEN rl
    ELSE IF ~FromUtf8(header).ok THEN rl
    ELSE LET parsed == ParseU32(FromUtf8(header).value) IN
         IF ~parsed.ok THEN rl ELSE [rl EXCEPT !.limit = parsed.value]

\* The X-Ratelimit-Remaining block.
UpdateRemaining(rl, header) ==
    IF header = Absent THEN rl
    ELSE IF ~FromUtf8(header).ok THEN rl
    ELSE LET parsed == ParseU32(FromUtf8(header).value) IN
         IF ~parsed.ok THEN rl ELSE [rl EXCEPT !.remaining = parsed.value]

\* RateLimit::update_from_response at instant time: the three blocks in
\* order; a panic in the first one ends the process before the others run.
UpdateFromResponse(rl, headers, time) ==
    LET d == UpdateDecayPeriod(rl, headers.decay_period, time) IN
    IF d.panic THEN [panic |-> TRUE, rl |-> rl]
    ELSE [panic |-> FALSE,
          rl |-> UpdateRemaining(UpdateLimit(d.rl, headers.limit), headers.remaining)]

\* The deadline RateLimit::wait sleeps to.
Deadline(rl) == rl.time + rl.decay_period

\* RateLimit::wait at instant t: with nothing remaining, sleep up to the
\* deadline (not at all when it has passed) and grant one call.
Wait(rl, t) ==
    IF rl.remaining = 0
    THEN [rl |-> [rl EXCEPT !.remaining = 1], now |-> Max(t, Deadline(rl)), slept |-> Deadline(rl) > t]
    ELSE [rl |-> rl, now |-> t, slept |-> FALSE]

(***************************************************************************)
(* src/src/api_client.rs: the verbs of ApiClient                           *)
(***************************************************************************)
\* What can come of a request: no response (send failed), a response with
\* an unexpected status, a response whose body does not parse (get), or the
\* expected response.
Outcomes == {"send_error", "bad_status", "bad_body", "ok"}

\* How long the server takes to answer.
Elapsed == {0, 1}

\* In a sync run the answers are immediate: its clock moves with the sleeps
\* of the rate limiter only.
SyncElapsed == {0}

\* get / post_new / delete, started at instant t with rate limit rl: wait,
\* send, update the rate limit from the response, check the status.  The
\* server has applied the request when it answers with the expected
\* status, whatever the client then makes of the headers.
Request(rl, t, outcome, headers, elapsed) ==
    LET w == Wait(rl, t)
        answered == w.now + elapsed
    IN IF outcome = "send_error"
       THEN [rl |-> w.rl, now |-> answered, waited |-> w.now, panic |-> FALSE,
             ok |-> FALSE, response |-> FALSE, applied |-> FALSE]
       ELSE LET u == UpdateFromResponse(w.rl, headers, answered) IN
            [rl |-> u.rl, now |-> answered, waited |-> w.now, panic |-> u.panic,
             ok |-> ~u.panic /\ outcome = "ok", response |-> TRUE,
             applied |-> outcome = "ok"]

(***************************************************************************)
(* The inputs of a run.                                                    *)
(***************************************************************************)
\* uurlog::Entry values of the hour log of a sync run: two entries with the
\* same description and hours on different days for different tasks, one
\* whose tags name two tasks, one outside the period, one without a task.
LocalEntries ==
    {[date |-> 1, hours |-> 1, tags |-> <<"t1">>, description |-> "a"],
     [date |-> 2, hours |-> 1, tags |-> <<"t2", "x">>, description |-> "a"],
     [date |-> 1, hours |-> 2, tags |-> <<"t1", "t2">>, description |-> "b"],
     [date |-> 0, hours |-> 2, tags |-> <<"x">>, description |-> "b"],
     [date |-> 2, hours |-> 2, tags |-> <<>>, description |-> "b"]}

\* What uurlog::parse_file gives for the files of the command line: the
\* entries, or an error.
HourLogs == {[ok |-> FALSE, entries |-> <<>>]}
            \cup {[ok |-> TRUE, entries |-> es] : es \in SeqsUpTo(LocalEntries, MaxLocal)}

\* The [[Task]] tables of the configuration file.
GoodTasks == <<[name |-> "t1", id |-> 7], [name |-> "t2", id |-> 8]>>

DuplicateTasks == <<[name |-> "t1", id |-> 7], [name |-> "t1", id |-> 8]>>

TaskTables == {GoodTasks, DuplicateTasks}

\* Config.general.summarize_per_day
SummaryText == "summary"

\* Date's Display, the text add_entry sends as the date.
DateToString(date) ==
    CASE date = 0 -> "2023-12-31"
      [] date = 1 -> "2024-01-01"
      [] date = 2 -> "2024-01-02"
      [] OTHER -> "2024-01-03"

\* types::TimeEntry values on the server, without their ids: the entries of
\* the user in the period; an entry timed with start and end has no date.
RemoteShapes ==
    {[task_id |-> 7, date |-> None, duration |-> 60, description |-> "a"],
     [task_id |-> 7, date |-> Some(DateToString(1)), duration |-> 60, description |-> "a"],
     [task_id |-> 7, date |-> Some(DateToString(1)), duration |-> 120, description |-> "a"]}

WithIds(shapes) ==
    [i \in DOMAIN shapes |->
        [id |-> i, task_id |-> shapes[i].task_id, user_id |-> MyUserId,
         date |-> shapes[i].date, duration |-> shapes[i].duration,
         description |-> shapes[i].description]]

\* The quota headers the server sends during a sync run.
SyncHeaders ==
    {NoHeaders,
     [decay_period |-> Absent, limit |-> "2", remaining |-> "0"],
     [decay_period |-> "-1", limit |-> Absent, remaining |-> Absent]}

(***************************************************************************)
(* State.                                                                  *)
(***************************************************************************)
VARIABLES
    pc,                 \* where the process is: a label of sync_to_paymo, or how it ended
    run,                \* which run of the command this is
    prev_ok,            \* the previous run synchronised the same log and succeeded
    dry_run,            \* SyncCommand.dry_run
    summarize,          \* Config.general.summarize_per_day: None or Some(text)
    hour_log,           \* what parsing the uurlog files gives
    remote,             \* the time entries on the server (user and period of the run)
    remote0,            \* the time entries on the server when the run started
    next_id,            \* the id the server gives the next entry
    entries,            \* sync_to_paymo: entries
    task_ids,           \* sync_to_paymo: task_ids
    entries_with_tasks, \* sync_to_paymo: entries_with_tasks
    old_entries,        \* sync_to_paymo: old_entries
    delete_entries,     \* sync_to_paymo: delete_entries
    index,              \* position of the running for loop
    rate_limit,         \* ApiClient.rate_limit
    now,                \* the clock
    trace,              \* what the process did: waits, requests, log lines
    last                \* the last request: how the rate limiter treated it

vars == <<pc, run, prev_ok, dry_run, summarize, hour_log, remote, remote0,
          next_id, entries, task_ids, entries_with_tasks, old_entries, delete_entries, index,
          rate_limit, now, trace, last>>

inputs == <<dry_run, summarize, hour_log, remote0>>

locals == <<entries, task_ids, entries_with_tasks, old_entries, delete_entries, index>>

NoRequest == [made |-> FALSE, updated |-> 0]

\* do_main up to the call of sync_to_paymo: a new ApiClient.
Init ==
    /\ pc = "read_log"
    /\ run = 1
    /\ prev_ok = FALSE
    /\ dry_run \in BOOLEAN
    /\ summarize \in {None, Some(SummaryText)}
    /\ hour_log = [ok |-> FALSE, entries |-> <<>>]
    /\ remote \in {WithIds(shapes) : shapes \in SeqsUpTo(RemoteShapes, MaxRemote)}
    /\ remote0 = remote
    /\ next_id = Len(remote) + 1
    /\ entries = <<>>
    /\ task_ids = {}
    /\ entries_with_tasks = <<>>
    /\ old_entries = <<>>
    /\ delete_entries = <<>>
    /\ index = 0
    /\ now = 0
    /\ rate_limit = RateLimitNew(0)
    /\ trace = <<>>
    /\ last = NoRequest

(***************************************************************************)
(* Requests.                                                               *)
(***************************************************************************)
\* A header that spells a count, or a period of seconds, the client can use.
Usable(header) == header \in {"0", "1", "2"}

ValueOf(header) == CHOOSE n \in 0..2 : <<"0", "1", "2">>[n + 1] = header

\* The response reports some quota.
Reports(headers) ==
    Usable(headers.decay_period) \/ Usable(headers.limit) \/ Usable(headers.remaining)

\* What a request leaves behind for the rate limiter's history.
LastOf(r, headers) ==
    [made |-> TRUE,
     zero |-> rate_limit.remaining = 0,     \* nothing remained when wait was called
     waited |-> r.waited,                   \* when wait returned
     before |-> Wait(rate_limit, now).rl,   \* the rate limit after wait
     response |-> r.response,               \* update_from_response ran
     headers |-> headers,
     panic |-> r.panic,
     after |-> r.rl,
     known |-> last.updated,                \* when a response last set a quota field
     updated |-> IF r.response /\ ~r.panic /\ Reports(headers)
                 THEN r.now ELSE last.updated]

\* One request of the client: the rate limit, the clock and the trace after
\* it.  r is Request(..) of the current state.
Sent(r, log, event) ==
    /\ r.now <= MaxTime
    /\ rate_limit' = r.rl
    /\ now' = r.now
    /\ trace' = log \o <<[ev |-> "wait"], event>>
    /\ last' = last

\* (variant: a failed request is tried again)
EndRetry(r) == IF r.panic THEN "panicked" ELSE pc

\* .map_err(|e| log::error!(..))?: an error ends the run; main exits with 1.
End(r) == IF r.panic THEN "panicked" ELSE "failed"

(***************************************************************************)
(* src/src/main.rs: sync_to_paymo                                          *)
(***************************************************************************)
\* (variant: the loop over delete_entries is left after its first turn)
DeleteLoopOnce(deletes, creates, i) ==
    IF i <= Len(deletes) /\ i <= 1 THEN [pc |-> "delete", index |-> i]
    ELSE IF creates # <<>> THEN [pc |-> "add", index |-> 1]
    ELSE [pc |-> "done", index |-> 0]

\* Where the process goes once delete_entries and entries_with_tasks are
\* known: the for loop over delete_entries from position i, the one over
\* entries_with_tasks, or the end.
DeleteLoop(deletes, creates, i) ==
    IF i <= Len(deletes) THEN [pc |-> "delete", index |-> i]
    ELSE IF creates # <<>> THEN [pc |-> "add", index |-> 1]
    ELSE [pc |-> "done", index |-> 0]

AddLoop(creates, i) ==
    IF i <= Len(creates) THEN [pc |-> "add", index |-> i] ELSE [pc |-> "done", index |-> 0]

\* Lines 153-162: parse the files (the first error ends the run), keep the
\* entries of the period.  A later run reads the same log.
ReadLog ==
    /\ pc = "read_log"
    /\ IF run = 1 THEN hour_log' \in HourLogs ELSE hour_log' = hour_log
    /\ IF hour_log'.ok
       THEN /\ entries' = RetainPeriod(hour_log'.entries)
            /\ pc' = "task_ids"
       ELSE /\ entries' = entries
            /\ pc' = "failed"
    /\ UNCHANGED <<run, prev_ok, dry_run, summarize, remote, remote0, next_id, task_ids,
                   entries_with_tasks, old_entries, delete_entries, index,
                   rate_limit, now, trace, last>>

\* Line 165: config.task_ids()?
ReadTaskIds ==
    /\ pc = "task_ids"
    /\ \E tasks \in TaskTables :
          LET r == TaskIds(tasks) IN
          /\ task_ids' = r.map
          /\ pc' = IF r.ok THEN "my_user" ELSE "failed"
    /\ UNCHANGED <<run, prev_ok, inputs, remote, next_id, entries, entries_with_tasks,
                   old_entries, delete_entries, index, rate_limit, now, trace, last>>

\* Lines 168-169: api.my_user(): GET me; an error ends the run (my_user
\* also fails on a body without exactly one user).
MyUser ==
    /\ pc = "my_user"
    /\ \E outcome \in Outcomes, headers \in SyncHeaders, elapsed \in SyncElapsed :
          LET r == Request(rate_limit, now, outcome, headers, elapsed) IN
          /\ Sent(r, trace, [ev |-> "GET", what |-> "me", ok |-> r.ok])
          /\ pc' = IF r.ok THEN "resolve" ELSE End(r)
    /\ UNCHANGED <<run, prev_ok, inputs, remote, next_id, locals>>

\* Lines 172-176: get_tasks_with_entries(entries, &task_ids)?, then
\* summarize_per_day when the configuration asks for it.
ResolveTasks ==
    /\ pc = "resolve"
    /\ LET r == GetTasksWithEntries(entries, task_ids) IN
       IF r.ok
       THEN /\ entries_with_tasks' =
                 IF summarize # None THEN SummarizePerDay(r.value, summarize[2]) ELSE r.value
            /\ pc' = "get_entries"
            /\ trace' = trace
       ELSE /\ entries_with_tasks' = entries_with_tasks
            /\ pc' = "failed"
            /\ trace' = Append(trace, [ev |-> "error", what |-> r.error])
    /\ UNCHANGED <<run, prev_ok, inputs, remote, next_id, entries, task_ids, old_entries,
                   delete_entries, index, rate_limit, now, last>>

\* Lines 179-203: api.get_time_entries(user, period), then the loop that
\* sorts the old entries into matched ones and ones to delete.
GetTimeEntries ==
    /\ pc = "get_entries"
    /\ \E outcome \in Outcomes, headers \in SyncHeaders, elapsed \in SyncElapsed :
          LET r == Request(rate_limit, now, outcome, headers, elapsed)
              plan == Reconcile(entries_with_tasks, remote, <<>>)
              next == DeleteLoop(plan.deletes, plan.creates, 1)
          IN
          /\ Sent(r, trace, [ev |-> "GET", what |-> "entries", ok |-> r.ok])
          /\ IF r.ok
             THEN /\ old_entries' = remote
                  /\ delete_entries' = plan.deletes
                  /\ entries_with_tasks' = plan.creates
                  /\ pc' = next.pc
                  /\ index' = next.index
             ELSE /\ UNCHANGED <<old_entries, delete_entries, entries_with_tasks, index>>
                  /\ pc' = End(r)
    /\ UNCHANGED <<run, prev_ok, inputs, remote, next_id, entries, task_ids>>

\* (variant: the flag is not looked at)
CallsServerAlways(dry) == TRUE

\* if !command.dry_run { .. }: the loops call the server unless dry_run.
CallsServer(dry) == ~dry

\* The server deleting an entry.
ServerDelete(store, id) == SelectSeq(store, LAMBDA e : e.id # id)

\* Lines 206-215, one turn of the loop: the warning, and unless dry_run
\* api.delete_entry(id): DELETE entries/id; an error ends the run.
DeleteEntry ==
    /\ pc = "delete"
    /\ LET delete_entry == delete_entries[index]
           next == DeleteLoop(delete_entries, entries_with_tasks, index + 1)
           warned == Append(trace, [ev |-> "warn", what |-> "Deleting entry",
                                    id |-> delete_entry.id])
       IN
       IF ~CallsServer(dry_run)
       THEN /\ trace' = warned
            /\ pc' = next.pc
            /\ index' = next.index
            /\ UNCHANGED <<remote, rate_limit, now, last>>
       ELSE \E outcome \in Outcomes \ {"bad_body"}, headers \in SyncHeaders, elapsed \in SyncElapsed :
               LET r == Request(rate_limit, now, outcome, headers, elapsed) IN
               /\ Sent(r, warned, [ev |-> "DELETE", id |-> delete_entry.id, ok |-> r.ok])
               /\ remote' = IF r.applied THEN ServerDelete(remote, delete_entry.id)
                                         ELSE remote
               /\ IF r.ok
                  THEN /\ pc' = next.pc
                       /\ index' = next.index
                  ELSE /\ pc' = End(r)
                       /\ index' = index
    /\ UNCHANGED <<run, prev_ok, inputs, next_id, entries, task_ids, entries_with_tasks,
                   old_entries, delete_entries>>

\* (variant: the duration is sent in minutes)
NewTimeEntryMinutes(task_id, date, duration, description) ==
    [task_id |-> task_id, date |-> DateToString(date),
     duration |-> duration, description |-> description]

\* ApiClient::add_entry: the NewTimeEntry it posts.
NewTimeEntry(task_id, date, duration, description) ==
    [task_id |-> task_id, date |-> DateToString(date),
     duration |-> DurationOf(duration), description |-> description]

\* The server storing a posted entry for the user of the token.
ServerCreate(store, id, new_entry) ==
    Append(store, [id |-> id, task_id |-> new_entry.task_id, user_id |-> MyUserId,
                   date |-> Some(new_entry.date), duration |-> new_entry.duration,
                   description |-> new_entry.description])

\* Lines 218-225, one turn of the loop: the message, and unless dry_run
\* api.add_entry(..): POST entries; an error ends the run.
AddEntry ==
    /\ pc = "add"
    /\ LET e == entries_with_tasks[index]
           new_entry == NewTimeEntry(e.task_id, e.entry.date, e.entry.hours, e.entry.description)
           next == AddLoop(entries_with_tasks, index + 1)
           told == Append(trace, [ev |-> "info", what |-> "Adding entry", entry |-> e])
       IN
       IF ~CallsServer(dry_run)
       THEN /\ trace' = told
            /\ pc' = next.pc
            /\ index' = next.index
            /\ UNCHANGED <<remote, next_id, rate_limit, now, last>>
       ELSE \E outcome \in Outcomes \ {"bad_body"}, headers \in SyncHeaders, elapsed \in SyncElapsed :
               LET r == Request(rate_limit, now, outcome, headers, elapsed) IN
               /\ Sent(r, told, [ev |-> "POST", entry |-> new_entry, ok |-> r.ok])
               /\ IF r.applied
                  THEN /\ remote' = ServerCreate(remote, next_id, new_entry)
                       /\ next_id' = next_id + 1
                  ELSE UNCHANGED <<remote, next_id>>
               /\ IF r.ok
                  THEN /\ pc' = next.pc
                       /\ index' = next.index
                  ELSE /\ pc' = End(r)
                       /\ index' = index
    /\ UNCHANGED <<run, prev_ok, inputs, entries, task_ids, entries_with_tasks,
                   old_entries, delete_entries>>

\* The operator runs the same command again on the same log, in a new
\* process, after a run that changed the server and succeeded.
RunAgain ==
    /\ pc = "done"
    /\ ~dry_run
    /\ run < MaxRuns
    /\ run' = run + 1
    /\ prev_ok' = TRUE
    /\ pc' = "read_log"
    /\ entries' = <<>>
    /\ task_ids' = {}
    /\ entries_with_tasks' = <<>>
    /\ old_entries' = <<>>
    /\ delete_entries' = <<>>
    /\ index' = 0
    /\ now' = 0
    /\ rate_limit' = RateLimitNew(0)
    /\ trace' = <<>>
    /\ last' = NoRequest
    /\ remote0' = remote
    /\ UNCHANGED <<dry_run, summarize, hour_log, remote, next_id>>

Next ==
    \/ ReadLog
    \/ ReadTaskIds
    \/ MyUser
    \/ ResolveTasks
    \/ GetTimeEntries
    \/ DeleteEntry
    \/ AddEntry
    \/ RunAgain

Spec == Init /\ [][Next]_vars

(***************************************************************************)
(* What the claims speak of.                                               *)
(***************************************************************************)
Events(kinds) == {i \in DOMAIN trace : trace[i].ev \in kinds}

\* get_time_entries has answered: old_entries, delete_entries and the list
\* to upload are those of the plan.
Listed == \E i \in Events({"GET"}) : trace[i].what = "entries" /\ trace[i].ok

\* The names of the task table.
TableKeys == {GoodTasks[i].name : i \in DOMAIN GoodTasks}

NamedTasks(entry) == {i \in DOMAIN entry.tags : entry.tags[i] \in TableKeys}

\* The task of an entry one tag of which names a task.
TaskOf(entry) ==
    CHOOSE id \in {GoodTasks[i].id : i \in DOMAIN GoodTasks} :
        \E i \in DOMAIN GoodTasks, t \in Range(entry.tags) :
            GoodTasks[i].name = t /\ GoodTasks[i].id = id

\* The desired entries of the run: the entries of the period with their
\* tasks, summarised per day when the configuration says so.
Desired ==
    LET resolved == [i \in DOMAIN entries |->
                        [entry |-> entries[i], task_id |-> TaskOf(entries[i])]]
    IN IF summarize = None THEN resolved ELSE SummarizePerDay(resolved, summarize[2])

\* (description, duration in seconds) of a desired entry and of a remote one.
LocalPair(d) == <<d.entry.description, d.entry.hours * 60>>

RemotePair(e) == <<e.description, e.duration>>

\* (task, date, duration, description) of a desired entry and of a remote one.
LocalFacts(d) ==
    <<d.task_id, Some(DateToString(d.entry.date)), d.entry.hours * 60, d.entry.description>>

RemoteFacts(e) == <<e.task_id, e.date, e.duration, e.description>>

\* The multiset of F over a sequence.
BagOf(s, F(_)) ==
    [k \in {F(s[i]) : i \in DOMAIN s} |-> Cardinality({i \in DOMAIN s : F(s[i]) = k})]

\* The i-th old entry finds every desired entry of its description and
\* duration taken by the old entries before it.
Surplus(i) ==
    Cardinality({j \in 1..i : RemotePair(old_entries[j]) = RemotePair(old_entries[i])})
      > Cardinality({k \in DOMAIN Desired : LocalPair(Desired[k]) = RemotePair(old_entries[i])})

DeletedIds == {trace[i].id : i \in {j \in Events({"DELETE"}) : trace[j].ok}}

C2_RemoteMirrorsLocal ==
    (pc = "done" /\ ~dry_run) => BagOf(remote, RemoteFacts) = BagOf(Desired, LocalFacts)

\* C2 as amended: the multisets of (description, duration) are the same; a
\* kept old entry may differ from the desired entry it stands for in date
\* and task.
C2_RemoteMirrorsDescriptionAndDuration ==
    (pc = "done" /\ ~dry_run) => BagOf(remote, RemotePair) = BagOf(Desired, LocalPair)

\* A successful run that deleted, created, and kept an old entry with a date
\* that is the date and task of no desired entry.
C2_KeptDeletedAndCreated ==
    /\ pc = "done" /\ ~dry_run
    /\ delete_entries # <<>>
    /\ \E e \in Range(remote) :
          /\ e \in Range(remote0)
          /\ e.date # None
          /\ \A k \in DOMAIN Desired : LocalFacts(Desired[k]) # RemoteFacts(e)
    /\ \E e \in Range(remote) : e \notin Range(remote0)

(***************************************************************************)
(* C4. Idempotence: a run on the log that the previous, successful run     *)
(* synchronised plans nothing: delete_entries is empty and nothing is left *)
(* to upload.                                                              *)
(***************************************************************************)
C4_SecondRunPlansNothing ==
    (prev_ok /\ Listed) =>
        /\ pc = "done"
        /\ delete_entries = <<>>
        /\ entries_with_tasks = <<>>
        /\ remote = remote0
        /\ Events({"DELETE", "POST", "warn", "info"}) = {}

C4_SecondRunOfDuplicates ==
    /\ prev_ok /\ Listed /\ pc = "done"
    /\ Len(Desired) = 2
    /\ LocalPair(Desired[1]) = LocalPair(Desired[2])

(***************************************************************************)
(* C6. When the log or the task table does not parse, or an entry of the   *)
(* period, at any place of the log, has no task or more than one, the run  *)
(* fails and no DELETE and no POST is sent.                                *)
(***************************************************************************)
BadEntry(entry) == entry.date \in Period /\ Cardinality(NamedTasks(entry)) # 1

BadLog == ~hour_log.ok \/ \E i \in DOMAIN hour_log.entries : BadEntry(hour_log.entries[i])

BadTable == task_ids = {}

C6_InvalidInputSendsNothing ==
    (\/ pc # "read_log" /\ BadLog
     \/ pc \notin {"read_log", "task_ids"} /\ BadTable)
    => /\ pc \in {"task_ids", "my_user", "resolve", "failed", "panicked"}
       /\ Events({"DELETE", "POST"}) = {}
       /\ remote = remote0

C6_FailedOnSecondEntry ==
    /\ pc = "failed"
    /\ Len(entries) = 2 /\ ~BadEntry(entries[1]) /\ BadEntry(entries[2])
    /\ remote0 # <<>>
    /\ Events({"error"}) # {}

(***************************************************************************)
(* C7. In a dry run every planned delete and create is reported, no call   *)
(* to the server is made and the rate limiter is not consulted: the state  *)
(* of the rate limit does not change.                                      *)
(* The two reads are made in a dry run too: it fails.                      *)
(***************************************************************************)
C7_DryRunMakesNoCall ==
    dry_run => /\ Events({"wait", "GET", "DELETE", "POST"}) = {}
               /\ rate_limit = RateLimitNew(0)

\* C7 as amended: a dry run sends no DELETE and no POST and leaves the
\* entries on the server as they are; it reports every planned delete and
\* create; it does send the reads (GET me, GET entries), each after a wait
\* of the rate limiter, whose state the answers may change.
Reported ==
    /\ [i \in 1..Cardinality(Events({"warn"})) |->
           trace[CHOOSE j \in Events({"warn"}) :
                    Cardinality({k \in Events({"warn"}) : k <= j}) = i].id]
         = [i \in DOMAIN delete_entries |-> delete_entries[i].id]
    /\ [i \in 1..Cardinality(Events({"info"})) |->
           trace[CHOOSE j \in Events({"info"}) :
                    Cardinality({k \in Events({"info"}) : k <= j}) = i].entry]
         = entries_with_tasks

C7_DryRunOnlyReads ==
    dry_run => /\ Events({"DELETE", "POST"}) = {}
               /\ remote = remote0
               /\ pc = "done" => Reported
               /\ \A i \in Events({"GET"}) : i > 1 /\ trace[i - 1].ev = "wait"
               /\ Cardinality(Events({"wait"})) = Cardinality(Events({"GET"}))

C7_DryRunWithPlan ==
    /\ dry_run /\ pc = "done"
    /\ delete_entries # <<>> /\ entries_with_tasks # <<>>
    /\ Cardinality(Events({"GET"})) = 2
    /\ rate_limit # RateLimitNew(0)

(***************************************************************************)
(* C8. Fail-fast: when a DELETE or POST fails, no further request is sent  *)
(* (no retry, no later delete, no create), what was applied stays applied, *)
(* and the run ends as failed.                                             *)
(***************************************************************************)
Failures == {i \in Events({"GET", "DELETE", "POST"}) : ~trace[i].ok}

Posted == SelectSeq(trace, LAMBDA event : event.ev = "POST" /\ event.ok)

\* remote0 without the entries deleted, then the entries posted.
AppliedFacts ==
    LET kept == SelectSeq(remote0, LAMBDA e : e.id \notin DeletedIds) IN
    [i \in DOMAIN kept |-> RemoteFacts(kept[i])]
    \o [i \in DOMAIN Posted |->
           <<Posted[i].entry.task_id, Some(Posted[i].entry.date),
             Posted[i].entry.duration, Posted[i].entry.description>>]

C8_FailFast ==
    /\ \A i \in Failures : i = Len(trace)
    /\ Failures # {} => pc \in {"failed", "panicked"}
    /\ pc = "failed" => [i \in DOMAIN remote |-> RemoteFacts(remote[i])] = AppliedFacts

C8_FailedAfterFirstDelete ==
    /\ pc = "failed"
    /\ trace # <<>>
    /\ trace[Len(trace)].ev = "DELETE" /\ ~trace[Len(trace)].ok
    /\ DeletedIds # {}
    /\ entries_with_tasks # <<>>

(***************************************************************************)
(* C11. In a run that is not a dry run every DELETE of the plan is sent    *)
(* before any POST, and every DELETE and POST comes right after exactly    *)
(* one wait of the rate limiter.                                           *)
(***************************************************************************)
C11_DeletesThenCreatesEachAfterOneWait ==
    ~dry_run =>
        /\ \A i \in Events({"POST"}), j \in Events({"DELETE"}) : j < i
        /\ Events({"POST"}) # {} =>
              \A k \in DOMAIN delete_entries : delete_entries[k].id \in DeletedIds
        /\ \A i \in Events({"DELETE", "POST"}) :
              /\ i > 1 /\ trace[i - 1].ev = "wait"
              /\ i > 2 => trace[i - 2].ev # "wait"
        /\ Cardinality(Events({"wait"})) = Cardinality(Events({"GET", "DELETE", "POST"}))

\* A run that sent two DELETEs and then a POST, and came to its end.
C11_TwoDeletesThenCreate ==
    /\ ~dry_run /\ pc = "done"
    /\ Cardinality(Events({"DELETE"})) = 2
    /\ Cardinality(Events({"POST"})) >= 1

(***************************************************************************)
(* C12. Nothing is sent before the run is validated: no request of any     *)
(* kind, the reads GET me and GET entries included, before the log is      *)
(* parsed, the task table built and every entry of the period resolved; a  *)
(* run that fails on the log, the table or an entry has sent nothing.      *)
(* GET me is sent before the entries are resolved: it fails.               *)
(***************************************************************************)
C12_NothingSentBeforeResolved ==
    (\/ pc \in {"read_log", "task_ids", "my_user", "resolve"}
     \/ pc = "failed" /\ (BadLog \/ BadTable))
    => Events({"wait", "GET", "DELETE", "POST"}) = {}

\* The requests of a run after GET me.
SentAfterMyUser ==
    {i \in DOMAIN trace :
        \/ trace[i].ev \in {"DELETE", "POST"}
        \/ trace[i].ev = "GET" /\ trace[i].what = "entries"}

OnlyMyUserSent(log) ==
    /\ Len(log) >= 2
    /\ log[1].ev = "wait"
    /\ log[2].ev = "GET" /\ log[2].what = "me" /\ log[2].ok
    /\ \A i \in 3..Len(log) : log[i].ev \notin {"wait", "GET", "DELETE", "POST"}

\* C12 as amended: no request is sent before the log is parsed and the task
\* table built, and a run that fails on either has sent nothing; GET me is
\* sent next, before the entries are resolved, so a run that fails on an
\* entry (only an entry of the period can fail it) has sent GET me, after
\* one wait, and nothing else; GET entries, DELETE and POST are sent only
\* when every entry of the period is resolved.
C12_OnlyMyUserSentBeforeResolved ==
    /\ pc \in {"read_log", "task_ids", "my_user"} => trace = <<>>
    /\ (pc = "failed" /\ (~hour_log.ok \/ BadTable)) => trace = <<>>
    /\ pc = "resolve" => Len(trace) = 2 /\ OnlyMyUserSent(trace)
    /\ Events({"error"}) # {} =>
          /\ pc = "failed" /\ hour_log.ok /\ ~BadTable /\ BadLog
          /\ Len(trace) = 3 /\ OnlyMyUserSent(trace)
    /\ SentAfterMyUser # {} =>
          /\ hour_log.ok /\ ~BadTable /\ ~BadLog
          /\ OnlyMyUserSent(SubSeq(trace, 1, 2))
          /\ \A i \in SentAfterMyUser : i > 2

\* A run that failed on an entry after GET me was answered, with quota
\* headers that changed the rate limit.
C12_FailedOnEntryAfterMyUser ==
    /\ pc = "failed"
    /\ Events({"error"}) # {}
    /\ Events({"GET"}) # {}
    /\ rate_limit # RateLimitNew(0)

(***************************************************************************)
(* The resolver on its own: get_tasks_with_entries on any log and table.   *)
(***************************************************************************)
\* longest list of tags of an entry
MaxTags == 2

ResolveEntries ==
    [date : {1}, hours : {1}, tags : SeqsUpTo(Tags, MaxTags), description : {"a"}]

ResolveTables ==
    {<<>>, <<[name |-> "t1", id |-> 7]>>, GoodTasks}

InitResolve ==
    /\ pc = "resolve"
    /\ run = 1
    /\ prev_ok = FALSE
    /\ dry_run = FALSE
    /\ summarize = None
    /\ entries \in SeqsUpTo(ResolveEntries, MaxLocal)
    /\ hour_log = [ok |-> TRUE, entries |-> entries]
    /\ task_ids \in {TaskIds(tasks).map : tasks \in ResolveTables}
    /\ remote = <<>>
    /\ remote0 = <<>>
    /\ next_id = 1
    /\ entries_with_tasks = <<>>
    /\ old_entries = <<>>
    /\ delete_entries = <<>>
    /\ index = 0
    /\ now = 0
    /\ rate_limit = RateLimitNew(0)
    /\ trace = <<>>
    /\ last = NoRequest

NextResolve == ResolveTasks

SpecResolve == InitResolve /\ [][NextResolve]_vars

(***************************************************************************)
(* C5. Resolver totality: an entry resolves to a task exactly when exactly *)
(* one of its tags is a name of the table, and the task is that name's;    *)
(* with no such tag it fails as NoTask, with more than one as Ambiguous,   *)
(* and no task is picked.  (Tags are counted by place: a name written      *)
(* twice counts twice.)                                                    *)
(***************************************************************************)
Named(entry) == {i \in DOMAIN entry.tags : \E p \in task_ids : p[1] = entry.tags[i]}

Unresolved == {i \in DOMAIN entries : Cardinality(Named(entries[i])) # 1}

C5_ResolverTotality ==
    pc # "resolve" =>
        /\ pc = "get_entries" <=> Unresolved = {}
        /\ pc = "failed" <=> Unresolved # {}
        /\ pc = "get_entries" =>
              /\ Len(entries_with_tasks) = Len(entries)
              /\ \A i \in DOMAIN entries :
                    /\ entries_with_tasks[i].entry = entries[i]
                    /\ \E j \in Named(entries[i]) :
                          <<entries[i].tags[j], entries_with_tasks[i].task_id>> \in task_ids
        /\ pc = "failed" =>
              LET first == CHOOSE i \in Unresolved : \A j \in Unresolved : i <= j IN
              /\ entries_with_tasks = <<>>
              /\ Len(trace) = 1
              /\ trace[1].what.kind =
                    IF Named(entries[first]) = {} THEN "NoTask" ELSE "Ambiguous"

C5_AmbiguousAfterResolved ==
    /\ pc = "failed"
    /\ Len(entries) = 2
    /\ Cardinality(Named(entries[1])) = 1
    /\ entries[2].tags = <<"t1", "t2">>
    /\ trace[1].what.kind = "Ambiguous"

(***************************************************************************)
(* The plan on its own: the loop over old_entries on any desired entries   *)
(* and any old entries.                                                    *)
(***************************************************************************)
PlanEntries ==
    [date : {1}, hours : Minutes, tags : {<<"t1">>}, description : Descriptions]

PlanShapes ==
    [task_id : {7}, date : {None, Some(DateToString(1))},
     duration : {DurationOf(m) : m \in Minutes}, description : Descriptions]

InitReconcile ==
    /\ pc = "get_entries"
    /\ run = 1
    /\ prev_ok = FALSE
    /\ dry_run = FALSE
    /\ summarize = None
    /\ entries \in SeqsUpTo(PlanEntries, MaxLocal)
    /\ hour_log = [ok |-> TRUE, entries |-> entries]
    /\ task_ids = TaskIds(GoodTasks).map
    /\ entries_with_tasks = [i \in DOMAIN entries |-> [entry |-> entries[i], task_id |-> 7]]
    /\ remote \in {WithIds(shapes) : shapes \in SeqsUpTo(PlanShapes, MaxRemote)}
    /\ remote0 = remote
    /\ next_id = Len(remote) + 1
    /\ old_entries = <<>>
    /\ delete_entries = <<>>
    /\ index = 0
    /\ now = 0
    /\ rate_limit = RateLimitNew(0)
    /\ trace = <<>>
    /\ last = NoRequest

NextReconcile == GetTimeEntries

SpecReconcile == InitReconcile /\ [][NextReconcile]_vars

(***************************************************************************)
(* C3. Conservation: the (description, duration) pairs of the old entries  *)
(* with a date that are not deleted, with the pairs of the entries to      *)
(* create, are the pairs of the desired entries, as multisets.             *)
(* An old entry without a date takes a desired entry as well: it fails.    *)
(***************************************************************************)
Identity(x) == x

KeptPairs(olds) ==
    LET kept == SelectSeq(olds, LAMBDA e : e \notin Range(delete_entries)) IN
    [i \in DOMAIN kept |-> RemotePair(kept[i])]

CreatePairs == [i \in DOMAIN entries_with_tasks |-> LocalPair(entries_with_tasks[i])]

DesiredPairs == [i \in DOMAIN Desired |-> LocalPair(Desired[i])]

InitRate ==
    /\ pc = "client"
    /\ run = 1
    /\ prev_ok = FALSE
    /\ dry_run = FALSE
    /\ summarize = None
    /\ hour_log = [ok |-> FALSE, entries |-> <<>>]
    /\ remote = <<>>
    /\ remote0 = <<>>
    /\ next_id = 1
    /\ entries = <<>>
    /\ task_ids = {}
    /\ entries_with_tasks = <<>>
    /\ old_entries = <<>>
    /\ delete_entries = <<>>
    /\ index = 0
    /\ now = 0
    /\ rate_limit = RateLimitNew(0)
    /\ trace = <<>>
    /\ last = NoRequest

\* A request through ApiClient::get, post_new or delete; index counts them.
ApiRequest ==
    /\ pc = "client"
    /\ index < MaxCalls
    /\ \E outcome \in {"send_error", "ok"}, headers \in AllHeaders, elapsed \in Elapsed :
          LET r == Request(rate_limit, now, outcome, headers, elapsed) IN
          /\ r.now <= MaxTime
          /\ rate_limit' = r.rl
          /\ now' = r.now
          /\ last' = LastOf(r, headers)
          /\ pc' = IF r.panic THEN "panicked" ELSE "client"
    /\ index' = index + 1
    /\ UNCHANGED <<run, prev_ok, inputs, remote, next_id, entries, task_ids,
                   entries_with_tasks, old_entries, delete_entries, trace>>

\* Time passes between two requests.
Tick ==
    /\ pc = "client"
    /\ now < MaxTime
    /\ now' = now + 1
    /\ UNCHANGED <<pc, run, prev_ok, inputs, remote, next_id, locals, rate_limit, trace, last>>

NextRate == ApiRequest \/ Tick

SpecRate == InitRate /\ [][NextRate]_vars

(***************************************************************************)
(* C9. The rate limiter never double-spends: when nothing remains, wait    *)
(* does not return before the decay period has passed since the rate limit *)
(* was last updated from a response, whatever quota headers that response  *)
(* carried.                                                                *)
(* The deadline counts from the last response that carried a decay period, *)
(* which may be long ago: it fails.                                        *)
(***************************************************************************)
C9_WaitsOutDecayPeriod ==
    (last.made /\ last.zero) => last.waited >= last.known + last.before.decay_period

(***************************************************************************)
(* C10. Each quota header on its own: absent or malformed, its field keeps *)
(* its value, the well-formed headers are applied, and the request that    *)
(* carried it is not aborted.                                              *)
(* A negative or non-finite decay period panics: it fails.                 *)
(***************************************************************************)
C10_MalformedHeaderIsIgnored ==
    (last.made /\ last.response) =>
        /\ ~last.panic
        /\ last.after.decay_period =
              IF Usable(last.headers.decay_period)
              THEN ValueOf(last.headers.decay_period) ELSE last.before.decay_period
        /\ last.after.limit =
              IF Usable(last.headers.limit)
              THEN ValueOf(last.headers.limit) ELSE last.before.limit
        /\ last.after.remaining =
              IF Usable(last.headers.remaining)
              THEN ValueOf(last.headers.remaining) ELSE last.before.remaining

(***************************************************************************)
(* The summary on its own: summarize_per_day on any list of resolved       *)
(* entries.                                                                *)
(***************************************************************************)
\* Entries of the period on two days, for two tasks, with different hours,
\* descriptions and tags.
SummaryEntries ==
    [date : Period, hours : Minutes, tags : {<<"t1">>, <<"t2", "x">>},
     description : Descriptions]

InitSummarize ==
    /\ pc = "resolve"
    /\ run = 1
    /\ prev_ok = FALSE
    /\ dry_run = FALSE
    /\ summarize = Some(SummaryText)
    /\ entries \in SeqsUpTo(SummaryEntries, MaxLocal)
    /\ hour_log = [ok |-> TRUE, entries |-> entries]
    /\ task_ids = TaskIds(GoodTasks).map
    /\ entries_with_tasks = <<>>
    /\ remote = <<>>
    /\ remote0 = remote
    /\ next_id = 1
    /\ old_entries = <<>>
    /\ delete_entries = <<>>
    /\ index = 0
    /\ now = 0
    /\ rate_limit = RateLimitNew(0)
    /\ trace = <<>>
    /\ last = NoRequest

NextSummarize == ResolveTasks

SpecSummarize == InitSummarize /\ [][NextSummarize]_vars

\* The resolved entries given to summarize_per_day.
Resolved == GetTasksWithEntries(entries, task_ids).value

KeyOf(e) == <<e.entry.date, e.task_id>>

RECURSIVE HoursOf(_, _)
HoursOf(s, key) ==
    IF s = <<>> THEN 0
    ELSE (IF KeyOf(Head(s)) = key THEN Head(s).entry.hours ELSE 0) + HoursOf(Tail(s), key)

(***************************************************************************)
(* C13. Aggregation: the summary has exactly one entry for every (date,    *)
(* task) of the resolved entries and for no other; its hours are the sum   *)
(* of the hours of the entries of that date and task, its description is   *)
(* the text of the configuration and it has no tags.                       *)
(***************************************************************************)
C13_Aggregation ==
    pc = "get_entries" =>
        /\ {KeyOf(entries_with_tasks[i]) : i \in DOMAIN entries_with_tasks}
             = {KeyOf(Resolved[i]) : i \in DOMAIN Resolved}
        /\ \A i, j \in DOMAIN entries_with_tasks :
              KeyOf(entries_with_tasks[i]) = KeyOf(entries_with_tasks[j]) => i = j
        /\ \A i \in DOMAIN entries_with_tasks :
              /\ entries_with_tasks[i].entry.hours
                   = HoursOf(Resolved, KeyOf(entries_with_tasks[i]))
              /\ entries_with_tasks[i].entry.description = SummaryText
              /\ entries_with_tasks[i].entry.tags = <<>>

\* Two entries of one day and task, with different descriptions and hours,
\* are summed into one.
C13_TwoSummedIntoOne ==
    /\ pc = "get_entries"
    /\ summarize # None
    /\ Len(entries) = 2
    /\ entries[1].description # entries[2].description
    /\ entries[1].hours # entries[2].hours
    /\ Len(entries_with_tasks) = 1
    /\ entries_with_tasks[1].entry.hours = 3

====
